---- MODULE Spec2Model ----
(***************************************************************************)
(* A model of the intent classification and command synthesis engine of    *)
(* GitFlow AI: NLPService (src/src/services/nlp_service.py) on top of      *)
(* GPTModelService (src/src/services/gpt_service.py) and the snapshot      *)
(* produced by GitStateAnalyzer (src/src/services/git_analyzer.py).        *)
(*                                                                         *)
(* Python strings are TLA+ strings; they are read character by character   *)
(* with SubSeq and Len.  An Optional value is <<>> (None) or <<v>>.        *)
(***************************************************************************)
EXTENDS Integers, Sequences, FiniteSets

(***************************************************************************)
(* Bounds of the model.                                                    *)
(***************************************************************************)
\* longest staged / unstaged / untracked list of a snapshot
MaxFiles == 1
\* largest number of commits the branch is ahead of its upstream
MaxAhead == 1
\* longest query, in words, that the classification specification draws
MaxWords == 2

(***************************************************************************)
(* Strings.                                                                *)
(***************************************************************************)
None == <<>>

Some(v) == <<v>>

Char(s, i) == SubSeq(s, i, i)

UpperChars == "ABCDEFGHIJKLMNOPQRSTUVWXYZ"

LowerChars == "abcdefghijklmnopqrstuvwxyz"

DigitChars == "0123456789"

CharsOf(s) == { Char(s, i) : i \in 1..Len(s) }

\* \w of the re module, on the ASCII characters the model draws
WordCharSet == CharsOf(UpperChars) \cup CharsOf(LowerChars) \cup CharsOf(DigitChars) \cup {"_"}

\* \s of the re module
SpaceCharSet == {" ", "\t", "\n", "\r", "\f"}

\* the class [a-zA-Z0-9_/-]
NameCharSet == WordCharSet \cup {"/", "-"}

QuoteCharSet == {"\"", "'"}

LowerOfChar(c) ==
    IF c \in CharsOf(UpperChars)
    THEN Char(LowerChars, CHOOSE i \in 1..Len(UpperChars) : Char(UpperChars, i) = c)
    ELSE c

\* str.lower()
lower(s) ==
    LET prefix[i \in 0..Len(s)] ==
            IF i = 0 THEN "" ELSE prefix[i - 1] \o LowerOfChar(Char(s, i))
    IN  prefix[Len(s)]

\* `sub in s`
Contains(s, sub) ==
    \E i \in 1..(Len(s) + 1) :
        /\ i + Len(sub) - 1 <= Len(s)
        /\ SubSeq(s, i, i + Len(sub) - 1) = sub

\* str.strip()
strip(s) ==
    LET len == Len(s)
        IsSpaceAt(i) == Char(s, i) \in SpaceCharSet
    IN  IF \A i \in 1..len : IsSpaceAt(i) THEN ""
        ELSE LET a == CHOOSE i \in 1..len :
                          ~IsSpaceAt(i) /\ \A j \in 1..(i - 1) : IsSpaceAt(j)
                 k == CHOOSE i \in 1..len :
                          ~IsSpaceAt(len + 1 - i) /\ \A j \in 1..(i - 1) : IsSpaceAt(len + 1 - j)
             IN  SubSeq(s, a, len + 1 - k)

\* s.split('\n')[0]
FirstLine(s) ==
    IF \A i \in 1..Len(s) : Char(s, i) # "\n" THEN s
    ELSE SubSeq(s, 1, (CHOOSE i \in 1..Len(s) :
                           Char(s, i) = "\n" /\ \A j \in 1..(i - 1) : Char(s, j) # "\n") - 1)

RECURSIVE IntToStr(_)
\* str(n) of a natural number
IntToStr(n) ==
    IF n < 10 THEN Char(DigitChars, n + 1)
    ELSE IntToStr(n \div 10) \o Char(DigitChars, (n % 10) + 1)

(***************************************************************************)
(* The regular expressions of the pattern table.  A pattern is a set of    *)
(* alternatives; an alternative is a sequence of tokens: B is \b, Lit(S)   *)
(* one of the literal words of S, AnyChars is .* (which does not cross a        *)
(* newline).  Search is re.search: a match starting anywhere.              *)
(***************************************************************************)
B == [kind |-> "b"]

AnyChars == [kind |-> "any"]

Lit(S) == [kind |-> "lit", alts |-> S]

IsWordAt(s, p) == p >= 1 /\ p <= Len(s) /\ Char(s, p) \in WordCharSet

\* \b between the characters p-1 and p
BoundaryAt(s, p) == IsWordAt(s, p - 1) # IsWordAt(s, p)

OccursAt(s, w, p) == p + Len(w) - 1 <= Len(s) /\ SubSeq(s, p, p + Len(w) - 1) = w

NoNewline(s, a, b) == \A i \in a..b : Char(s, i) # "\n"

\* the tokens of alt from the k-th on match s from position p on
MatchFrom(s, alt, k0, p0) ==
    LET rest[kp \in (1..(Len(alt) + 1)) \X (1..(Len(s) + 1))] ==
            LET k == kp[1]
                p == kp[2]
            IN  IF k > Len(alt) THEN TRUE
                ELSE LET t == alt[k]
                     IN  CASE t.kind = "b" -> BoundaryAt(s, p) /\ rest[<<k + 1, p>>]
                           [] t.kind = "lit" ->
                                 \E w \in t.alts :
                                     OccursAt(s, w, p) /\ rest[<<k + 1, p + Len(w)>>]
                           [] t.kind = "any" ->
                                 \E q \in p..(Len(s) + 1) :
                                     NoNewline(s, p, q - 1) /\ rest[<<k + 1, q>>]
    IN  rest[<<k0, p0>>]

Search(pattern, s) ==
    \E alt \in pattern : \E p \in 1..(Len(s) + 1) : MatchFrom(s, alt, 1, p)

\* \b(a|b)\b.*\b(x|y)\b
TwoWords(S, T) == { <<B, Lit(S), B, AnyChars, B, Lit(T), B>> }

\* \bw\b
OneWord(w) == { <<B, Lit({w}), B>> }

\* \bv.*w\b
Span(v, w) == { <<B, Lit({v}), AnyChars, Lit({w}), B>> }

command_patterns ==
    << [action |-> "commit",
        patterns |-> << TwoWords({"commit", "save", "record"}, {"changes", "files", "work"}),
                        OneWord("commit"),
                        Span("save", "changes") >>],
       [action |-> "push",
        patterns |-> << TwoWords({"push", "upload", "send"}, {"remote", "origin", "upstream"}),
                        OneWord("push"),
                        Span("upload", "changes") >>],
       [action |-> "pull",
        patterns |-> << TwoWords({"pull", "fetch", "download", "get", "sync"},
                                 {"changes", "updates", "remote"}),
                        OneWord("pull"),
                        Span("get", "changes") >>],
       [action |-> "branch",
        patterns |-> << TwoWords({"create", "make", "new"}, {"branch"}),
                        TwoWords({"switch", "change", "checkout"}, {"branch"}),
                        OneWord("branch") >>],
       [action |-> "merge",
        patterns |-> << TwoWords({"merge"}, {"branch"}),
                        OneWord("merge"),
                        Span("combine", "branches") >>],
       [action |-> "status",
        patterns |-> << { <<B, Lit({"status", "state"}), B>>,
                          <<B, Lit({"what"}), AnyChars, Lit({"changed"}), B>> },
                        Span("check", "status"),
                        Span("what", "files") >>],
       [action |-> "undo",
        patterns |-> << { <<B, Lit({"undo", "revert", "rollback", "reset"}), B>> },
                        Span("undo", "commit"),
                        Span("go", "back") >>],
       [action |-> "stash",
        patterns |-> << TwoWords({"stash", "save", "store"}, {"changes", "work"}),
                        OneWord("stash"),
                        Span("temporary", "save") >>] >>

CategoryOrder == [i \in 1..Len(command_patterns) |-> command_patterns[i].action]

\* some pattern of the i-th category matches the lower-cased query
CategoryMatches(i, query_lower) ==
    \E j \in 1..Len(command_patterns[i].patterns) :
        Search(command_patterns[i].patterns[j], query_lower)

(***************************************************************************)
(* NLPService._extract_target                                              *)
(***************************************************************************)
\* re.search(kw \s+ ([a-zA-Z0-9_/-]+), s): None, or Some(group 1) of the
\* leftmost match
SearchNameAfter(kw, s) ==
    LET RunEnd(p, cls) ==
            \* the first position at or after p whose character is not in cls
            CHOOSE e \in p..(Len(s) + 1) :
                /\ \A i \in p..(e - 1) : Char(s, i) \in cls
                /\ (e = Len(s) + 1 \/ Char(s, e) \notin cls)
        MatchAt(i) ==
            /\ OccursAt(s, kw, i)
            /\ LET w == i + Len(kw)
                   n == RunEnd(w, SpaceCharSet)
               IN  n > w /\ RunEnd(n, NameCharSet) > n
        starts == { i \in 1..Len(s) : MatchAt(i) }
    IN  IF starts = {} THEN None
        ELSE LET i == CHOOSE x \in starts : \A y \in starts : x <= y
                 n == RunEnd(i + Len(kw), SpaceCharSet)
             IN  Some(SubSeq(s, n, RunEnd(n, NameCharSet) - 1))

\* re.search(message \s+ ["']([^"']+)["'], s): None, or Some(group 1) of the
\* leftmost match
SearchQuotedMessage(s) ==
    LET RunEnd(p, cls) ==
            CHOOSE e \in p..(Len(s) + 1) :
                /\ \A i \in p..(e - 1) : Char(s, i) \in cls
                /\ (e = Len(s) + 1 \/ Char(s, e) \notin cls)
        \* the next quote at or after p, Len(s) + 1 when there is none
        NextQuote(p) ==
            CHOOSE e \in p..(Len(s) + 1) :
                /\ \A i \in p..(e - 1) : Char(s, i) \notin QuoteCharSet
                /\ (e = Len(s) + 1 \/ Char(s, e) \in QuoteCharSet)
        MatchAt(i) ==
            /\ OccursAt(s, "message", i)
            /\ LET w == i + Len("message")
                   n == RunEnd(w, SpaceCharSet)
               IN  /\ n > w
                   /\ n <= Len(s)
                   /\ Char(s, n) \in QuoteCharSet
                   /\ NextQuote(n + 1) > n + 1
                   /\ NextQuote(n + 1) <= Len(s)
        starts == { i \in 1..Len(s) : MatchAt(i) }
    IN  IF starts = {} THEN None
        ELSE LET i == CHOOSE x \in starts : \A y \in starts : x <= y
                 n == RunEnd(i + Len("message"), SpaceCharSet)
             IN  Some(SubSeq(s, n + 1, NextQuote(n + 1) - 1))

extract_target(query, action) ==
    LET query_lower == lower(query)
    IN  CASE action = "branch" ->
                 LET branch_match == SearchNameAfter("branch", query_lower)
                 IN  IF branch_match # None THEN branch_match[1] ELSE "new branch"
          [] action = "commit" ->
                 LET msg_match == SearchQuotedMessage(query)
                 IN  IF msg_match # None THEN msg_match[1] ELSE "changes"
          [] action = "merge" ->
                 LET merge_match == SearchNameAfter("merge", query_lower)
                 IN  IF merge_match # None THEN merge_match[1] ELSE "branch"
          [] OTHER -> "repository"

(***************************************************************************)
(* NLPService._analyze_intent.  Confidence is kept in tenths: 8 is 0.8.    *)
(***************************************************************************)
MatchedConfidence == 8

FallbackConfidence == 5

\* the loop over command_patterns.items(): the first category, in the order of
\* the table, one of whose patterns matches
\* analyze_intent with the categories scanned from the last to the first
analyze_intent_LastMatch(query) ==
    LET query_lower == lower(query)
        from[i \in 0..Len(command_patterns)] ==
            IF i = 0
            THEN [action |-> "help", target |-> "general",
                  confidence |-> FallbackConfidence, raw_query |-> query]
            ELSE IF CategoryMatches(i, query_lower)
                 THEN [action |-> command_patterns[i].action,
                       target |-> extract_target(query, command_patterns[i].action),
                       confidence |-> MatchedConfidence, raw_query |-> query]
                 ELSE from[i - 1]
    IN  from[Len(command_patterns)]

\* analyze_intent with the default intent carrying the confidence of a match
analyze_intent_FlatConfidence(query) ==
    LET query_lower == lower(query)
        from[i \in 1..(Len(command_patterns) + 1)] ==
            IF i > Len(command_patterns)
            THEN [action |-> "help", target |-> "general",
                  confidence |-> MatchedConfidence, raw_query |-> query]
            ELSE IF CategoryMatches(i, query_lower)
                 THEN [action |-> command_patterns[i].action,
                       target |-> extract_target(query, command_patterns[i].action),
                       confidence |-> MatchedConfidence, raw_query |-> query]
                 ELSE from[i + 1]
    IN  from[1]

analyze_intent(query) ==
    LET query_lower == lower(query)
        from[i \in 1..(Len(command_patterns) + 1)] ==
            IF i > Len(command_patterns)
            THEN [action |-> "help", target |-> "general",
                  confidence |-> FallbackConfidence, raw_query |-> query]
            ELSE IF CategoryMatches(i, query_lower)
                 THEN [action |-> command_patterns[i].action,
                       target |-> extract_target(query, command_patterns[i].action),
                       confidence |-> MatchedConfidence, raw_query |-> query]
                 ELSE from[i + 1]
    IN  from[1]

\* the queries a caller submits to process_user_query
QueryExamples ==
    { "", "   ", "hello there",
      "commit my changes", "commit with message 'fix login'", "save my work",
      "push to origin",
      "pull the latest changes",
      "create a new branch feature/login", "switch to branch main", "show branch",
      "switch to a new branch",
      "merge feature/login",
      "what is the status",
      "undo my last commit", "undo last commit but keep changes", "undo",
      "revert the last commits", "undo but keep my commits",
      "stash my work", "stash" }

\* analyze_intent of each of them, evaluated once
IntentOf == [q \in QueryExamples |-> analyze_intent(q)]

(***************************************************************************)
(* The snapshot: GitRepositoryState as GitStateAnalyzer.get_current_state  *)
(* builds it.  is_clean is derived from the three file lists.              *)
(***************************************************************************)
RECURSIVE SeqsUpTo(_, _)
\* the sequences over S of length at most n
SeqsUpTo(S, n) ==
    IF n = 0 THEN { <<>> }
    ELSE LET shorter == SeqsUpTo(S, n - 1)
         IN  shorter \cup { Append(q, x) : q \in shorter, x \in S }

FileStatuses == { [path |-> "a.txt", status |-> "modified"] }

UntrackedPaths == { "notes.md" }

BranchNames == { "main", "feature/login" }

\* conflicted_files of a snapshot the caller passes: None, an empty list, or the
\* non-empty list of conflicted paths that _get_conflicted_files returns
ConflictedValues == { None, Some(<<>>), Some(<<"x.txt">>) }

AheadBehindValues == { None } \cup { Some([ahead |-> a, behind |-> 0]) : a \in 0..MaxAhead }

MakeState(branch, staged, unstaged, untracked, conflicted, ahead_behind) ==
    [current_branch |-> branch,
     staged_files |-> staged,
     unstaged_files |-> unstaged,
     untracked_files |-> untracked,
     conflicted_files |-> conflicted,
     is_clean |-> (Len(staged) = 0 /\ Len(unstaged) = 0 /\ Len(untracked) = 0),
     ahead_behind |-> ahead_behind]

Snapshots ==
    { MakeState(b, st, un, ut, cf, ab) :
        b \in BranchNames,
        st \in SeqsUpTo(FileStatuses, MaxFiles),
        un \in SeqsUpTo(FileStatuses, MaxFiles),
        ut \in SeqsUpTo(UntrackedPaths, MaxFiles),
        cf \in ConflictedValues,
        ab \in AheadBehindValues }

\* truthiness of a list, and of an Optional list or dict
NonEmpty(list) == Len(list) > 0

Truthy(opt) == opt # None /\ opt[1] # <<>>

(***************************************************************************)
(* GitCommand and RiskLevel (models/git_models.py).                        *)
(***************************************************************************)
SAFE == "safe"

MODERATE == "moderate"

DESTRUCTIVE == "destructive"

GitCommand(args, description, risk_level, requires_confirmation, explanation) ==
    [command |-> "git",
     args |-> args,
     description |-> description,
     risk_level |-> risk_level,
     requires_confirmation |-> requires_confirmation,
     explanation |-> explanation]

\* `x in list`
InList(x, list) == \E i \in 1..Len(list) : list[i] = x

\* a result, or an exception that propagates to the caller
Return(v) == [ok |-> TRUE, value |-> v]

Raise(e) == [ok |-> FALSE, error |-> e]

(***************************************************************************)
(* GPTModelService.  The service is [is_loaded, model, tokenizer]; model   *)
(* and tokenizer are None or Some(object).  What the language model        *)
(* generates is not determined by the program (do_sample is on): one call  *)
(* of generate consumes one outcome, either the decoded continuation of    *)
(* the prompt or an exception raised inside the try block.                 *)
(***************************************************************************)
NewService == [is_loaded |-> FALSE, model |-> None, tokenizer |-> None]

is_model_ready(svc) == svc.is_loaded /\ svc.model # None /\ svc.tokenizer # None

Generated(text) == [kind |-> "text", text |-> text]

Failed(message) == [kind |-> "exception", message |-> message]

RawGenerations == { "", "Done.", " feat: update login flow\n\nTouches a.txt" }

GenerationOutcomes == { Generated(t) : t \in RawGenerations } \cup { Failed("CUDA out of memory") }

EmptyGenerationReply == "I understand your request. Let me help you with that Git operation."

generate_response(svc, outcome) ==
    IF ~is_model_ready(svc) THEN Raise("RuntimeError")
    ELSE IF outcome.kind = "exception"
         THEN Return("I encountered an error processing your request: " \o outcome.message)
         ELSE LET generated_text == strip(outcome.text)
              IN  Return(IF generated_text # "" THEN generated_text ELSE EmptyGenerationReply)

\* the prompt built from the query and the git context reaches only the
\* language model, whose answer is the outcome
generate_git_response(svc, outcome) == generate_response(svc, outcome)

MaxCommitMessageLen == 72

CommitMessageKeep == 69

\* generate_commit_message cutting after MaxCommitMessageLen characters
generate_commit_message_CutsLate(svc, outcome) ==
    LET response == generate_response(svc, outcome)
    IN  IF ~response.ok THEN response
        ELSE LET first == strip(FirstLine(strip(response.value)))
                 commit_message ==
                     IF Len(first) > MaxCommitMessageLen
                     THEN SubSeq(first, 1, MaxCommitMessageLen) \o "..."
                     ELSE first
             IN  Return(IF commit_message # "" THEN commit_message ELSE "Update files")

generate_commit_message(svc, outcome) ==
    LET response == generate_response(svc, outcome)
    IN  IF ~response.ok THEN response
        ELSE LET first == strip(FirstLine(strip(response.value)))
                 commit_message ==
                     IF Len(first) > MaxCommitMessageLen
                     THEN SubSeq(first, 1, CommitMessageKeep) \o "..."
                     ELSE first
             IN  Return(IF commit_message # "" THEN commit_message ELSE "Update files")

\* initialize(): the step that raises, if any, decides what has been assigned
InitializeOutcomes == { "ok", "tokenizer_fails", "model_fails", "setup_fails" }

initialize(svc, outcome) ==
    CASE outcome = "tokenizer_fails" -> svc
      [] outcome = "model_fails" -> [svc EXCEPT !.tokenizer = Some("tokenizer")]
      [] outcome = "setup_fails" ->
             [svc EXCEPT !.tokenizer = Some("tokenizer"), !.model = Some("model")]
      [] OTHER ->
             [is_loaded |-> TRUE, model |-> Some("model"), tokenizer |-> Some("tokenizer")]

\* cleanup releasing the model and the tokenizer without clearing is_loaded
cleanup_KeepsLoaded(svc) == [svc EXCEPT !.model = None, !.tokenizer = None]

cleanup(svc) == [is_loaded |-> FALSE, model |-> None, tokenizer |-> None]

(***************************************************************************)
(* The command synthesizer: NLPService._generate_*_commands.               *)
(***************************************************************************)
Quoted(s) == "\"" \o s \o "\""

\* GitStateAnalyzer.analyze_diff runs git diff on the working tree: it
\* returns a diff (which only feeds the prompt) or raises
DiffOutcomes == { "ok", "GitCommandError" }

\* generate_commit_commands staging only when there are untracked files
generate_commit_commands_StageUntracked(context, target, svc, diff_outcome, outcome) ==
    LET stage ==
            IF ~NonEmpty(context.staged_files) /\ NonEmpty(context.untracked_files)
            THEN << GitCommand(<<"add", ".">>, "Stage all changes for commit", SAFE, FALSE,
                               Some("First, let's stage your changes")) >>
            ELSE <<>>
    IN  IF target # "changes"
        THEN Return(stage \o
                 << GitCommand(<<"commit", "-m", Quoted(target)>>,
                               "Commit changes with message: " \o target, SAFE, FALSE, None) >>)
        ELSE IF NonEmpty(context.staged_files) \/ NonEmpty(context.unstaged_files)
             THEN IF diff_outcome # "ok" THEN Raise(diff_outcome)
                  ELSE LET ai_message == generate_commit_message(svc, outcome)
                       IN  IF ~ai_message.ok THEN ai_message
                           ELSE Return(stage \o
                                    << GitCommand(<<"commit", "-m", Quoted(ai_message.value)>>,
                                                  "Commit with AI-generated message: "
                                                      \o ai_message.value,
                                                  SAFE, FALSE, None) >>)
             ELSE Return(stage)

\* generate_commit_commands committing the placeholder when nothing is staged or modified
generate_commit_commands_AlwaysCommits(context, target, svc, diff_outcome, outcome) ==
    LET stage ==
            IF ~NonEmpty(context.staged_files)
               /\ (NonEmpty(context.unstaged_files) \/ NonEmpty(context.untracked_files))
            THEN << GitCommand(<<"add", ".">>, "Stage all changes for commit", SAFE, FALSE,
                               Some("First, let's stage your changes")) >>
            ELSE <<>>
    IN  IF target # "changes" \/ ~(NonEmpty(context.staged_files) \/ NonEmpty(context.unstaged_files))
        THEN Return(stage \o
                 << GitCommand(<<"commit", "-m", Quoted(target)>>,
                               "Commit changes with message: " \o target, SAFE, FALSE, None) >>)
        ELSE IF diff_outcome # "ok" THEN Raise(diff_outcome)
             ELSE LET ai_message == generate_commit_message(svc, outcome)
                  IN  IF ~ai_message.ok THEN ai_message
                      ELSE Return(stage \o
                               << GitCommand(<<"commit", "-m", Quoted(ai_message.value)>>,
                                             "Commit with AI-generated message: "
                                                 \o ai_message.value,
                                             SAFE, FALSE, None) >>)

\* generate_commit_commands asking for confirmation when the model gave no text
generate_commit_commands_ConfirmDefault(context, target, svc, diff_outcome, outcome) ==
    LET stage ==
            IF ~NonEmpty(context.staged_files)
               /\ (NonEmpty(context.unstaged_files) \/ NonEmpty(context.untracked_files))
            THEN << GitCommand(<<"add", ".">>, "Stage all changes for commit", SAFE, FALSE,
                               Some("First, let's stage your changes")) >>
            ELSE <<>>
    IN  IF target # "changes"
        THEN Return(stage \o
                 << GitCommand(<<"commit", "-m", Quoted(target)>>,
                               "Commit changes with message: " \o target, SAFE, FALSE, None) >>)
        ELSE IF NonEmpty(context.staged_files) \/ NonEmpty(context.unstaged_files)
             THEN IF diff_outcome # "ok" THEN Raise(diff_outcome)
                  ELSE LET ai_message == generate_commit_message(svc, outcome)
                       IN  IF ~ai_message.ok THEN ai_message
                           ELSE Return(stage \o
                                    << GitCommand(<<"commit", "-m", Quoted(ai_message.value)>>,
                                                  "Commit with AI-generated message: "
                                                      \o ai_message.value,
                                                  SAFE, ai_message.value = EmptyGenerationReply,
                                                  None) >>)
             ELSE Return(stage)

generate_commit_commands(context, target, svc, diff_outcome, outcome) ==
    LET stage ==
            IF ~NonEmpty(context.staged_files)
               /\ (NonEmpty(context.unstaged_files) \/ NonEmpty(context.untracked_files))
            THEN << GitCommand(<<"add", ".">>, "Stage all changes for commit", SAFE, FALSE,
                               Some("First, let's stage your changes")) >>
            ELSE <<>>
    IN  IF target # "changes"
        THEN Return(stage \o
                 << GitCommand(<<"commit", "-m", Quoted(target)>>,
                               "Commit changes with message: " \o target, SAFE, FALSE, None) >>)
        ELSE IF NonEmpty(context.staged_files) \/ NonEmpty(context.unstaged_files)
             THEN IF diff_outcome # "ok" THEN Raise(diff_outcome)
                  ELSE LET ai_message == generate_commit_message(svc, outcome)
                       IN  IF ~ai_message.ok THEN ai_message
                           ELSE Return(stage \o
                                    << GitCommand(<<"commit", "-m", Quoted(ai_message.value)>>,
                                                  "Commit with AI-generated message: "
                                                      \o ai_message.value,
                                                  SAFE, FALSE, None) >>)
             ELSE Return(stage)

\* generate_push_commands taking any ahead/behind record for commits to push
generate_push_commands_AnyAhead(context) ==
    IF context.ahead_behind # None
    THEN << GitCommand(<<"push">>, "Push commits to remote repository", SAFE, FALSE,
                       Some("Push " \o IntToStr(context.ahead_behind[1].ahead)
                                \o " commit(s) to remote")) >>
    ELSE << GitCommand(<<"push", "-u", "origin", context.current_branch>>,
                       "Push current branch to remote (first time)", MODERATE, TRUE,
                       Some("This will create the branch on the remote repository")) >>

generate_push_commands(context) ==
    IF context.ahead_behind # None /\ context.ahead_behind[1].ahead > 0
    THEN << GitCommand(<<"push">>, "Push commits to remote repository", SAFE, FALSE,
                       Some("Push " \o IntToStr(context.ahead_behind[1].ahead)
                                \o " commit(s) to remote")) >>
    ELSE << GitCommand(<<"push", "-u", "origin", context.current_branch>>,
                       "Push current branch to remote (first time)", MODERATE, TRUE,
                       Some("This will create the branch on the remote repository")) >>

\* generate_pull_commands not stashing a dirty working tree
generate_pull_commands_NoStash(context) ==
    << GitCommand(<<"pull">>, "Pull latest changes from remote", MODERATE, FALSE,
                  Some("Fetch and merge changes from remote repository")) >>

generate_pull_commands(context) ==
    (IF ~context.is_clean
     THEN << GitCommand(<<"stash">>, "Stash local changes before pulling", SAFE, TRUE,
                        Some("Stash changes to avoid conflicts during pull")) >>
     ELSE <<>>)
    \o << GitCommand(<<"pull">>, "Pull latest changes from remote", MODERATE, FALSE,
                     Some("Fetch and merge changes from remote repository")) >>

\* generate_branch_commands asking for confirmation when the tree is clean
generate_branch_commands_ConfirmsClean(context, target, query) ==
    LET query_lower == lower(query)
    IN  IF Contains(query_lower, "create") \/ Contains(query_lower, "new")
        THEN LET branch_name == IF target # "new branch" THEN target ELSE "feature/new-feature"
             IN  << GitCommand(<<"checkout", "-b", branch_name>>,
                               "Create and switch to new branch: " \o branch_name,
                               SAFE, FALSE, None) >>
        ELSE IF Contains(query_lower, "switch") \/ Contains(query_lower, "checkout")
             THEN << GitCommand(<<"checkout", target>>, "Switch to branch: " \o target,
                                MODERATE, context.is_clean,
                                Some("Switching branches with uncommitted changes may lose work")) >>
             ELSE << GitCommand(<<"branch", "-a">>, "List all branches", SAFE, FALSE, None) >>

\* generate_branch_commands testing switch/checkout before create/new
generate_branch_commands_SwitchFirst(context, target, query) ==
    LET query_lower == lower(query)
    IN  IF Contains(query_lower, "switch") \/ Contains(query_lower, "checkout")
        THEN << GitCommand(<<"checkout", target>>, "Switch to branch: " \o target,
                           MODERATE, ~context.is_clean,
                           Some("Switching branches with uncommitted changes may lose work")) >>
        ELSE IF Contains(query_lower, "create") \/ Contains(query_lower, "new")
             THEN LET branch_name ==
                          IF target # "new branch" THEN target ELSE "feature/new-feature"
                  IN  << GitCommand(<<"checkout", "-b", branch_name>>,
                                    "Create and switch to new branch: " \o branch_name,
                                    SAFE, FALSE, None) >>
             ELSE << GitCommand(<<"branch", "-a">>, "List all branches", SAFE, FALSE, None) >>

generate_branch_commands(context, target, query) ==
    LET query_lower == lower(query)
    IN  IF Contains(query_lower, "create") \/ Contains(query_lower, "new")
        THEN LET branch_name == IF target # "new branch" THEN target ELSE "feature/new-feature"
             IN  << GitCommand(<<"checkout", "-b", branch_name>>,
                               "Create and switch to new branch: " \o branch_name,
                               SAFE, FALSE, None) >>
        ELSE IF Contains(query_lower, "switch") \/ Contains(query_lower, "checkout")
             THEN << GitCommand(<<"checkout", target>>, "Switch to branch: " \o target,
                                MODERATE, ~context.is_clean,
                                Some("Switching branches with uncommitted changes may lose work")) >>
             ELSE << GitCommand(<<"branch", "-a">>, "List all branches", SAFE, FALSE, None) >>

\* generate_merge_commands checking the status after the merge
generate_merge_commands_StatusLast(context, target) ==
    << GitCommand(<<"merge", target>>, "Merge branch '" \o target \o "' into current branch",
                  MODERATE, TRUE, Some("This will combine changes from both branches")) >>
    \o (IF ~context.is_clean
        THEN << GitCommand(<<"status">>, "Check repository status before merge", SAFE, FALSE,
                           Some("Clean working directory recommended before merge")) >>
        ELSE <<>>)

generate_merge_commands(context, target) ==
    (IF ~context.is_clean
     THEN << GitCommand(<<"status">>, "Check repository status before merge", SAFE, FALSE,
                        Some("Clean working directory recommended before merge")) >>
     ELSE <<>>)
    \o << GitCommand(<<"merge", target>>, "Merge branch '" \o target \o "' into current branch",
                     MODERATE, TRUE, Some("This will combine changes from both branches")) >>

generate_status_commands(context) ==
    << GitCommand(<<"status">>, "Show repository status", SAFE, FALSE,
                  Some("Display current state of your repository")) >>

\* generate_undo_commands not looking for "keep" or "save"
generate_undo_commands_AlwaysHard(context, query) ==
    LET query_lower == lower(query)
    IN  IF Contains(query_lower, "commit")
        THEN << GitCommand(<<"reset", "--hard", "HEAD~1">>,
                           "Undo last commit and discard changes", DESTRUCTIVE, TRUE,
                           Some("(!) This will permanently delete your changes!")) >>
        ELSE << GitCommand(<<"log", "--oneline", "-5">>,
                           "Show recent commits to choose what to undo", SAFE, FALSE, None) >>

\* generate_undo_commands with the hard reset not asking for confirmation
generate_undo_commands_Unconfirmed(context, query) ==
    LET query_lower == lower(query)
    IN  IF Contains(query_lower, "commit")
        THEN IF Contains(query_lower, "keep") \/ Contains(query_lower, "save")
             THEN << GitCommand(<<"reset", "--soft", "HEAD~1">>,
                                "Undo last commit but keep changes staged", MODERATE, TRUE,
                                Some("This will undo the commit but preserve your changes")) >>
             ELSE << GitCommand(<<"reset", "--hard", "HEAD~1">>,
                                "Undo last commit and discard changes", DESTRUCTIVE, FALSE,
                                Some("(!) This will permanently delete your changes!")) >>
        ELSE << GitCommand(<<"log", "--oneline", "-5">>,
                           "Show recent commits to choose what to undo", SAFE, FALSE, None) >>

\* the explanation of the hard reset starts with a warning sign in the source
generate_undo_commands(context, query) ==
    LET query_lower == lower(query)
    IN  IF Contains(query_lower, "commit")
        THEN IF Contains(query_lower, "keep") \/ Contains(query_lower, "save")
             THEN << GitCommand(<<"reset", "--soft", "HEAD~1">>,
                                "Undo last commit but keep changes staged", MODERATE, TRUE,
                                Some("This will undo the commit but preserve your changes")) >>
             ELSE << GitCommand(<<"reset", "--hard", "HEAD~1">>,
                                "Undo last commit and discard changes", DESTRUCTIVE, TRUE,
                                Some("(!) This will permanently delete your changes!")) >>
        ELSE << GitCommand(<<"log", "--oneline", "-5">>,
                           "Show recent commits to choose what to undo", SAFE, FALSE, None) >>

\* generate_stash_commands suggesting nothing when there is nothing to stash
generate_stash_commands_NothingToStash(context) ==
    IF NonEmpty(context.unstaged_files) \/ NonEmpty(context.untracked_files)
    THEN << GitCommand(<<"stash", "push", "-m", "Work in progress">>, "Stash current changes",
                       SAFE, FALSE, Some("Temporarily save your changes")) >>
    ELSE <<>>

generate_stash_commands(context) ==
    IF NonEmpty(context.unstaged_files) \/ NonEmpty(context.untracked_files)
    THEN << GitCommand(<<"stash", "push", "-m", "Work in progress">>, "Stash current changes",
                       SAFE, FALSE, Some("Temporarily save your changes")) >>
    ELSE << GitCommand(<<"stash", "list">>, "Show stashed changes", SAFE, FALSE, None) >>

\* generate_commands falling back to the status command when the model gave no text
generate_commands_ReadsReply(intent, query, context, ai_response, svc, diff_outcome, outcome) ==
    LET action == intent.action
        target == intent.target
        status_only ==
            Return(<< GitCommand(<<"status">>, "Show repository status", SAFE, FALSE,
                                 Some("Let's start by checking your repository status")) >>)
    IN  CASE ai_response = EmptyGenerationReply -> status_only
          [] action = "commit" ->
                 generate_commit_commands(context, target, svc, diff_outcome, outcome)
          [] action = "push" -> Return(generate_push_commands(context))
          [] action = "pull" -> Return(generate_pull_commands(context))
          [] action = "branch" -> Return(generate_branch_commands(context, target, query))
          [] action = "merge" -> Return(generate_merge_commands(context, target))
          [] action = "status" -> Return(generate_status_commands(context))
          [] action = "undo" -> Return(generate_undo_commands(context, query))
          [] action = "stash" -> Return(generate_stash_commands(context))
          [] OTHER -> status_only

\* ai_response is a parameter of _generate_commands that its body never reads
generate_commands(intent, query, context, ai_response, svc, diff_outcome, outcome) ==
    LET action == intent.action
        target == intent.target
    IN  CASE action = "commit" ->
                 generate_commit_commands(context, target, svc, diff_outcome, outcome)
          [] action = "push" -> Return(generate_push_commands(context))
          [] action = "pull" -> Return(generate_pull_commands(context))
          [] action = "branch" -> Return(generate_branch_commands(context, target, query))
          [] action = "merge" -> Return(generate_merge_commands(context, target))
          [] action = "status" -> Return(generate_status_commands(context))
          [] action = "undo" -> Return(generate_undo_commands(context, query))
          [] action = "stash" -> Return(generate_stash_commands(context))
          [] OTHER ->
                 Return(<< GitCommand(<<"status">>, "Show repository status", SAFE, FALSE,
                                      Some("Let's start by checking your repository status")) >>)

(***************************************************************************)
(* The response assembler and the auditor.                                 *)
(***************************************************************************)
MinEnrichmentLen == 10

\* explanations.get(action, <the sentence for any other action>)
explanations(action, context) ==
    CASE action = "commit" ->
             "I'll help you commit your changes. You have "
                 \o IntToStr(Len(context.staged_files)) \o " staged files and "
                 \o IntToStr(Len(context.unstaged_files)) \o " modified files."
      [] action = "push" -> "I'll help you push your changes to the remote repository."
      [] action = "pull" -> "I'll help you pull the latest changes from the remote repository."
      [] action = "branch" -> "I'll help you work with Git branches."
      [] action = "merge" -> "I'll help you merge branches safely."
      [] action = "status" -> "I'll show you the current status of your repository."
      [] action = "undo" -> "I'll help you undo changes safely."
      [] action = "stash" -> "I'll help you stash your current work."
      [] OTHER -> "I'll help you with that Git operation."

\* generate_explanation appending a reply of the threshold length too
generate_explanation_AtLeast(intent, query, context, ai_response) ==
    LET base_explanation == explanations(intent.action, context)
    IN  IF ai_response # "" /\ Len(ai_response) >= MinEnrichmentLen
        THEN base_explanation \o " " \o ai_response
        ELSE base_explanation

generate_explanation(intent, query, context, ai_response) ==
    LET base_explanation == explanations(intent.action, context)
    IN  IF ai_response # "" /\ Len(ai_response) > MinEnrichmentLen
        THEN base_explanation \o " " \o ai_response
        ELSE base_explanation

\* the two first messages start with a warning sign and a light bulb in the source
DestructiveWarning ==
    "(!) This operation will permanently delete data. Make sure you have backups."

UncommittedWarning == "(i) You have uncommitted changes. Consider committing them first."

ConflictWarning == "(!) You have unresolved merge conflicts. Resolve them before proceeding."

\* check_warnings testing conflicted_files against None, as _build_git_context does
check_warnings_ConflictsNotNone(commands, context) ==
    LET destructive_commands == SelectSeq(commands, LAMBDA cmd : cmd.risk_level = DESTRUCTIVE)
        push_commands == SelectSeq(commands, LAMBDA cmd : InList("push", cmd.args))
        warnings ==
            (IF NonEmpty(destructive_commands) THEN <<DestructiveWarning>> ELSE <<>>)
            \o (IF ~context.is_clean /\ NonEmpty(push_commands)
                THEN <<UncommittedWarning>> ELSE <<>>)
            \o (IF context.conflicted_files # None THEN <<ConflictWarning>> ELSE <<>>)
    IN  IF NonEmpty(warnings) THEN Some(warnings) ELSE None

check_warnings(commands, context) ==
    LET destructive_commands == SelectSeq(commands, LAMBDA cmd : cmd.risk_level = DESTRUCTIVE)
        push_commands == SelectSeq(commands, LAMBDA cmd : InList("push", cmd.args))
        warnings ==
            (IF NonEmpty(destructive_commands) THEN <<DestructiveWarning>> ELSE <<>>)
            \o (IF ~context.is_clean /\ NonEmpty(push_commands)
                THEN <<UncommittedWarning>> ELSE <<>>)
            \o (IF Truthy(context.conflicted_files) THEN <<ConflictWarning>> ELSE <<>>)
    IN  IF NonEmpty(warnings) THEN Some(warnings) ELSE None

SoftResetAlternative ==
    GitCommand(<<"reset", "--soft", "HEAD~1">>, "Safer option: Undo commit but keep changes",
               MODERATE, TRUE, None)

RECURSIVE AlternativesOf(_)
\* the loop of _generate_alternatives over the commands
AlternativesOf(commands) ==
    IF commands = <<>> THEN <<>>
    ELSE LET cmd == Head(commands)
         IN  (IF cmd.risk_level = DESTRUCTIVE
                 /\ InList("reset", cmd.args) /\ InList("--hard", cmd.args)
              THEN <<SoftResetAlternative>> ELSE <<>>)
             \o AlternativesOf(Tail(commands))

\* generate_alternatives offering the soft reset for every reset command
generate_alternatives_AnyReset(commands, context) ==
    LET resets == SelectSeq(commands, LAMBDA cmd : InList("reset", cmd.args))
        alternatives == [i \in 1..Len(resets) |-> SoftResetAlternative]
    IN  IF NonEmpty(alternatives) THEN Some(alternatives) ELSE None

generate_alternatives(commands, context) ==
    LET alternatives == AlternativesOf(commands)
    IN  IF NonEmpty(alternatives) THEN Some(alternatives) ELSE None

AssistantResponse(interpretation, suggested_commands, explanation, warnings, alternatives, confidence) ==
    [interpretation |-> interpretation,
     suggested_commands |-> suggested_commands,
     explanation |-> explanation,
     warnings |-> warnings,
     alternatives |-> alternatives,
     confidence |-> confidence]

(***************************************************************************)
(* NLPService.process_user_query on a snapshot the caller passes.  The     *)
(* outcome is the AssistantResponse it returns or the exception it raises; *)
(* intent is the local it computed first.                                  *)
(***************************************************************************)
process_user_query(query, context, svc, reply_outcome, diff_outcome, commit_outcome) ==
    LET intent == IntentOf[query]
        ai_response == generate_git_response(svc, reply_outcome)
    IN  IF ~ai_response.ok
        THEN [kind |-> "raised", error |-> ai_response.error, intent |-> intent]
        ELSE LET suggested_commands ==
                     generate_commands(intent, query, context, ai_response.value,
                                       svc, diff_outcome, commit_outcome)
             IN  IF ~suggested_commands.ok
                 THEN [kind |-> "raised", error |-> suggested_commands.error,
                       intent |-> intent]
                 ELSE [kind |-> "response",
                       intent |-> intent,
                       response |->
                           AssistantResponse(
                               "I understand you want to " \o intent.action \o " "
                                   \o intent.target,
                               suggested_commands.value,
                               generate_explanation(intent, query, context, ai_response.value),
                               check_warnings(suggested_commands.value, context),
                               generate_alternatives(suggested_commands.value, context),
                               intent.confidence)]

(***************************************************************************)
(* The simple command line, gitflow_cli.py.  SimpleGitAI.git_patterns maps *)
(* a regular expression (with no \b: its words match inside longer words)  *)
(* to the command it stands for; process_query collects every pattern that *)
(* matches.  A dict is a function from its keys.                           *)
(***************************************************************************)
\* w1|w2|...
Words(S) == { <<Lit({w})>> : w \in S }

\* v.*w
Gap(v, w) == { <<Lit({v}), AnyChars, Lit({w})>> }

\* u.*v.*w
Gap2(u, v, w) == { <<Lit({u}), AnyChars, Lit({v}), AnyChars, Lit({w})>> }

PatternInfo(pattern, command, description, risk, help) ==
    [pattern |-> pattern,
     info |-> [command |-> command, description |-> description, risk |-> risk, help |-> help]]

\* in the order of the dict literal; the warning sign of two help texts is "(!)"
git_patterns ==
    << PatternInfo(Words({"commit", "save changes", "record changes"}),
                   "git commit", "Commit your staged changes", "safe",
                   "This will create a new commit with your staged changes. Make sure to stage files first with \"git add\"."),
       PatternInfo(Gap("undo", "commit") \cup Gap("revert", "commit"),
                   "git revert HEAD", "Revert the last commit", "moderate",
                   "This creates a new commit that undoes the changes from the last commit."),
       PatternInfo(Gap("reset", "commit") \cup Gap2("undo", "last", "commit"),
                   "git reset --soft HEAD~1", "Undo last commit but keep changes", "destructive",
                   "(!) This removes the last commit but keeps your changes in the staging area."),
       PatternInfo(Gap("create", "branch") \cup Gap("new", "branch"),
                   "git checkout -b <branch-name>", "Create and switch to a new branch", "safe",
                   "This creates a new branch and switches to it. Replace <branch-name> with your desired name."),
       PatternInfo(Gap("switch", "branch") \cup Gap("change", "branch"),
                   "git checkout <branch-name>", "Switch to an existing branch", "safe",
                   "This switches to an existing branch. Replace <branch-name> with the target branch."),
       PatternInfo(Gap("merge", "branch"),
                   "git merge <branch-name>", "Merge a branch into current branch", "moderate",
                   "This merges another branch into your current branch. Make sure you're on the target branch first."),
       PatternInfo(Gap("delete", "branch") \cup Gap("remove", "branch"),
                   "git branch -d <branch-name>", "Delete a branch", "destructive",
                   "(!) This permanently deletes a branch. Make sure it's merged first."),
       PatternInfo(Words({"status"}) \cup Gap("what", "changed") \cup Gap("current", "state"),
                   "git status", "Show repository status", "safe",
                   "This shows the current state of your working directory and staging area."),
       PatternInfo(Words({"log", "history", "commits"}),
                   "git log --oneline -10", "Show recent commit history", "safe",
                   "This shows the last 10 commits in a compact format."),
       PatternInfo(Words({"diff", "changes"}) \cup Gap("what", "different"),
                   "git diff", "Show changes in working directory", "safe",
                   "This shows the differences between your working directory and the last commit."),
       PatternInfo(Gap("add", "files") \cup Gap("stage", "files"),
                   "git add .", "Stage all changes", "safe",
                   "This stages all modified and new files for the next commit."),
       PatternInfo(Words({"unstage"}) \cup Gap("remove", "staged"),
                   "git reset HEAD", "Unstage all files", "moderate",
                   "This removes files from the staging area but keeps your changes."),
       PatternInfo(Words({"push", "upload", "send"}),
                   "git push", "Push commits to remote repository", "moderate",
                   "This uploads your commits to the remote repository."),
       PatternInfo(Words({"pull", "download", "fetch"}),
                   "git pull", "Pull changes from remote repository", "moderate",
                   "This downloads and merges changes from the remote repository."),
       PatternInfo(Words({"stash"}) \cup Gap("save", "work") \cup Gap("temporary", "save"),
                   "git stash", "Temporarily save changes", "safe",
                   "This temporarily saves your uncommitted changes so you can switch branches.") >>

\* dict.get(key, default)
Get(dict, key, default) == IF key \in DOMAIN dict THEN dict[key] ELSE default

\* the truth value of git_status.get('error')
HasError(git_status) == "error" \in DOMAIN git_status /\ git_status.error # ""

StatusCounts == 0..MaxFiles

\* get_git_status(): not a repository, git cannot be run, or the branch and
\* the counts of the porcelain lines (a line may count as neither staged nor
\* unstaged)
GitStatusOutcomes ==
    { [error |-> "Not a Git repository"],
      [error |-> "[Errno 2] No such file or directory: 'git'"] }
    \cup { status \in [current_branch : { "main" }, staged_files : StatusCounts,
                        unstaged_files : StatusCounts, is_clean : BOOLEAN] :
             status.is_clean => (status.staged_files = 0 /\ status.unstaged_files = 0) }

\* the warning sign that opens both messages in the source is "(!)"
DestructiveOperationWarning(command) == "(!) " \o command \o " is a destructive operation!"

UnstagedChangesWarning == "(!) You have unstaged changes. Consider stashing them first."

UnmatchedInterpretation ==
    "I understand you're asking about Git, but I couldn't identify a specific command."

\* the infos of the patterns that match the lower-cased query, in dict order
MatchesOf(query) ==
    LET query_lower == lower(query)
        found[k \in 0..Len(git_patterns)] ==
            IF k = 0 THEN <<>>
            ELSE IF Search(git_patterns[k].pattern, query_lower)
                 THEN Append(found[k - 1], git_patterns[k].info)
                 ELSE found[k - 1]
    IN  found[Len(git_patterns)]

\* what the user types at the prompt
CliInputs ==
    { "How do I check the status of my repository?", "I want to commit my changes",
      "How do I create a new branch?",
      "I made a mistake in my last commit, how do I fix it?",
      "How do I merge my feature branch safely?",
      "I want to undo my last commit", "reset the last commit",
      "Delete the old branch", "switch branch", "show the history",
      "stage my files", "unstage", "push", "download", "save my work",
      "hello there", "exit", "Quit", "bye" }

ExitWords == { "exit", "quit", "bye" }

\* MatchesOf each of them, evaluated once
CliMatches == [typed \in CliInputs |-> MatchesOf(typed)]

\* status_outcome is what get_git_status() returns when it is called
process_query(query, status_outcome) ==
    IF CliMatches[query] = <<>>
    THEN [interpretation |-> UnmatchedInterpretation,
          suggestion |->
              "Try asking about: commit, branch, status, merge, push, pull, or stash operations.",
          commands |-> <<>>]
    ELSE LET matches == CliMatches[query]
             git_status == status_outcome
             warnings_for(match) ==
                 (IF match.risk = "destructive"
                  THEN << DestructiveOperationWarning(match.command) >> ELSE <<>>)
                 \o (IF Contains(match.command, "checkout")
                        /\ Get(git_status, "unstaged_files", 0) > 0
                     THEN << UnstagedChangesWarning >> ELSE <<>>)
             warnings[k \in 0..Len(matches)] ==
                 IF k = 0 THEN <<>> ELSE warnings[k - 1] \o warnings_for(matches[k])
         IN  [interpretation |-> "I understand you want to: " \o matches[1].description,
              commands |-> matches,
              git_status |-> git_status,
              warnings |-> IF ~HasError(git_status) THEN warnings[Len(matches)] ELSE <<>>]

\* process_single_query: what it echoes, line by line, and the exception that
\* ends it; response is what process_query returned
process_single_query(query, response) ==
    LET command_lines[k \in 0..Len(response.commands)] ==
            IF k = 0 THEN <<>>
            ELSE command_lines[k - 1]
                     \o << IntToStr(k) \o ". " \o response.commands[k].risk \o " "
                               \o response.commands[k].command,
                           response.commands[k].help >>
        shown ==
            << "Processing: " \o query, response.interpretation >>
            \o (IF response.commands # <<>>
                THEN << "Suggested Git Commands:" >> \o command_lines[Len(response.commands)]
                ELSE <<>>)
    IN  IF "warnings" \notin DOMAIN response
        THEN [echoed |-> shown, raised |-> Some("KeyError")]
        ELSE LET git_status == Get(response, "git_status", <<>>)
             IN  [echoed |->
                      shown
                      \o (IF response.warnings # <<>>
                          THEN << "Important Warnings:" >> \o response.warnings ELSE <<>>)
                      \o (IF ~HasError(git_status)
                          THEN << "Repository Status:",
                                  "Current branch: " \o Get(git_status, "current_branch", "unknown"),
                                  "Staged files: " \o IntToStr(Get(git_status, "staged_files", 0)),
                                  "Unstaged files: "
                                      \o IntToStr(Get(git_status, "unstaged_files", 0)),
                                  "Repository: "
                                      \o (IF Get(git_status, "is_clean", FALSE)
                                          THEN "Clean" ELSE "Has changes") >>
                          ELSE <<>>),
                  raised |-> None]

(***************************************************************************)
(* The state: the query and the snapshot of one request, the working tree  *)
(* the snapshot was captured from, the git commands run so far, the        *)
(* language-model service, what the model generated for the last call of   *)
(* process_user_query, and that call's outcome; the calls the owner of the *)
(* service made on it directly, and where the simple command line's        *)
(* conversation stands.                                                    *)
(***************************************************************************)
VARIABLES user_query, snapshot, repo, executed, gpt, generations, result, calls, session

vars == <<user_query, snapshot, repo, executed, gpt, generations, result, calls, session>>

NoResult == [kind |-> "none"]

\* the simple command line has not been started
NoSession == [at |-> "off", prompts |-> 0]

\* the service as constructed, and after initialize() has loaded the model
ServiceStates == { NewService, initialize(NewService, "ok") }

Init ==
    /\ user_query \in QueryExamples
    /\ repo \in Snapshots
    /\ snapshot = repo
    /\ executed = <<>>
    /\ gpt \in ServiceStates
    /\ generations = <<>>
    /\ result = NoResult
    /\ calls = <<>>
    /\ session = NoSession

\* the commit rule reads the diff and asks for a commit message only on this path
AsksCommitMessage(q, ctx) ==
    /\ IntentOf[q].action = "commit"
    /\ IntentOf[q].target = "changes"
    /\ (NonEmpty(ctx.staged_files) \/ NonEmpty(ctx.unstaged_files))

\* what the model generated during a call: nothing when the service refuses
\* the first call, the reply alone when no commit message is asked for
GenerationsOf(reply_outcome, diff_outcome, commit_outcome) ==
    IF ~is_model_ready(gpt) THEN <<>>
    ELSE IF AsksCommitMessage(user_query, snapshot) /\ diff_outcome = "ok"
         THEN <<reply_outcome, commit_outcome>>
         ELSE <<reply_outcome>>

\* the commands of an outcome, as the command lines a shell would be given
CommandLines(outcome) ==
    IF outcome.kind = "response"
    THEN [i \in 1..Len(outcome.response.suggested_commands) |->
             <<"git">> \o outcome.response.suggested_commands[i].args]
    ELSE <<>>

\* Respond running the commands it suggests
Respond_RunsCommands(reply_outcome, diff_outcome, commit_outcome) ==
    /\ result' = process_user_query(user_query, snapshot, gpt,
                                    reply_outcome, diff_outcome, commit_outcome)
    /\ generations' = GenerationsOf(reply_outcome, diff_outcome, commit_outcome)
    /\ executed' = executed \o CommandLines(result')
    /\ UNCHANGED <<user_query, snapshot, repo, gpt, calls, session>>

\* the body of process_user_query for given outcomes of the calls it makes: it
\* assigns no attribute, calls no subprocess and writes nothing to the snapshot
Respond(reply_outcome, diff_outcome, commit_outcome) ==
    /\ result' = process_user_query(user_query, snapshot, gpt,
                                    reply_outcome, diff_outcome, commit_outcome)
    /\ generations' = GenerationsOf(reply_outcome, diff_outcome, commit_outcome)
    /\ UNCHANGED <<user_query, snapshot, repo, executed, gpt, calls, session>>

\* one call of process_user_query(user_query, snapshot), with the outcomes of the
\* calls it makes to the language model and to git diff
ProcessUserQuery ==
    \E reply_outcome \in GenerationOutcomes :
      \E diff_outcome \in
             (IF AsksCommitMessage(user_query, snapshot) THEN DiffOutcomes ELSE {"ok"}) :
        \E commit_outcome \in
               (IF AsksCommitMessage(user_query, snapshot) /\ diff_outcome = "ok"
                THEN GenerationOutcomes ELSE {reply_outcome}) :
          Respond(reply_outcome, diff_outcome, commit_outcome)

Next == ProcessUserQuery

Spec == Init /\ [][Next]_vars

(***************************************************************************)
(* The interpreter on its own: _analyze_intent over every query of at most *)
(* MaxWords words of the vocabulary the patterns mention.                  *)
(***************************************************************************)
QueryWords ==
    { "commit", "Commit", "commits", "save", "changes", "work", "push", "pull",
      "branch", "merge", "status", "undo", "stash", "\n" }

RECURSIVE WordQueries(_)
\* the queries of at most n words, joined by single spaces
WordQueries(n) ==
    IF n = 0 THEN { "" }
    ELSE LET shorter == WordQueries(n - 1)
         IN  shorter \cup { IF q = "" THEN w ELSE q \o " " \o w : q \in shorter, w \in QueryWords }

ClassifyQueries == QueryExamples \cup WordQueries(MaxWords)

CleanSnapshot == MakeState("main", <<>>, <<>>, <<>>, None, None)

InitClassify ==
    /\ user_query \in ClassifyQueries
    /\ repo = CleanSnapshot
    /\ snapshot = repo
    /\ executed = <<>>
    /\ gpt = NewService
    /\ generations = <<>>
    /\ result = NoResult
    /\ calls = <<>>
    /\ session = NoSession

\* one call of _analyze_intent(user_query)
AnalyzeIntent ==
    /\ result' = [kind |-> "intent", intent |-> analyze_intent(user_query)]
    /\ UNCHANGED <<user_query, snapshot, repo, executed, gpt, generations, calls, session>>

NextClassify == AnalyzeIntent

SpecClassify == InitClassify /\ [][NextClassify]_vars

(***************************************************************************)
(* The explanation on its own: _generate_explanation and process_user_query *)
(* over replies of every length up to MaxReplyLen.                         *)
(***************************************************************************)
MaxReplyLen == 12

ReplyText == "Check-the-status-first"

\* what the model may answer: the prefixes of ReplyText
Replies == { SubSeq(ReplyText, 1, k) : k \in 0..MaxReplyLen }

StagedSnapshot ==
    MakeState("main", << [path |-> "a.txt", status |-> "modified"] >>, <<>>, <<>>, None, None)

InitExplain ==
    /\ user_query \in QueryExamples
    /\ repo \in { CleanSnapshot, StagedSnapshot }
    /\ snapshot = repo
    /\ executed = <<>>
    /\ gpt = initialize(NewService, "ok")
    /\ generations = <<>>
    /\ result = NoResult
    /\ calls = <<>>
    /\ session = NoSession

\* one call of _generate_explanation(intent, user_query, snapshot, ai_response)
GenerateExplanation ==
    /\ \E ai_response \in Replies :
           result' = [kind |-> "explanation",
                      intent |-> IntentOf[user_query],
                      ai_response |-> ai_response,
                      explanation |->
                          generate_explanation(IntentOf[user_query], user_query,
                                               snapshot, ai_response)]
    /\ UNCHANGED <<user_query, snapshot, repo, executed, gpt, generations, calls, session>>

\* one call of process_user_query(user_query, snapshot) for which the model answers
\* one of Replies
ProcessUserQueryReply ==
    \E reply \in Replies : Respond(Generated(reply), "ok", Generated("Done."))

NextExplain == GenerateExplanation \/ ProcessUserQueryReply

SpecExplain == InitExplain /\ [][NextExplain]_vars

(***************************************************************************)
(* The commit message on its own: generate_commit_message over generations *)
(* whose first line has every length up to MaxFirstLineLen.                *)
(***************************************************************************)
MaxFirstLineLen == 75

FirstLineText ==
    "feat(login):add-the-remember-me-option-and-keep-the-session-for-thirty-days-more"

\* the reply is its first line alone, or carries a body, or is indented
CommitGenerations ==
    UNION { { Generated(SubSeq(FirstLineText, 1, k)),
              Generated(SubSeq(FirstLineText, 1, k) \o "\n\nTouches a.txt"),
              Generated("  " \o SubSeq(FirstLineText, 1, k) \o " \n") } : k \in 0..MaxFirstLineLen }
    \cup { Failed("CUDA out of memory"),
           Failed("CUDA out of memory. Tried to allocate 20.00 MiB") }

InitCommitMessage ==
    /\ user_query = "commit my changes"
    /\ repo = StagedSnapshot
    /\ snapshot = repo
    /\ executed = <<>>
    /\ gpt \in ServiceStates
    /\ generations = <<>>
    /\ result = NoResult
    /\ calls = <<>>
    /\ session = NoSession

\* one call of generate_commit_message(diff_summary, file_changes)
GenerateCommitMessage ==
    /\ \E outcome \in CommitGenerations :
           /\ result' = [kind |-> "commit_message",
                         message |-> generate_commit_message(gpt, outcome)]
           /\ generations' = IF is_model_ready(gpt) THEN <<outcome>> ELSE <<>>
    /\ UNCHANGED <<user_query, snapshot, repo, executed, gpt, calls, session>>

NextCommitMessage == GenerateCommitMessage

SpecCommitMessage == InitCommitMessage /\ [][NextCommitMessage]_vars

(***************************************************************************)
(* The life of a GPTModelService: its owner calls initialize,              *)
(* generate_response and cleanup in any order, at most MaxCalls times.     *)
(* calls records each call with what it returned or raised; result keeps   *)
(* the service as the last call found it.                                  *)
(***************************************************************************)
MaxCalls == 3

InitService ==
    /\ user_query = ""
    /\ repo = CleanSnapshot
    /\ snapshot = repo
    /\ executed = <<>>
    /\ gpt = NewService
    /\ generations = <<>>
    /\ result = NoResult
    /\ calls = <<>>
    /\ session = NoSession

\* initialize() returns True from the last line of the try block and False
\* from the handler
Initialize ==
    /\ Len(calls) < MaxCalls
    /\ \E outcome \in InitializeOutcomes :
           /\ gpt' = initialize(gpt, outcome)
           /\ calls' = Append(calls, [op |-> "initialize", returned |-> (outcome = "ok")])
           /\ result' = [kind |-> "call", op |-> "initialize", before |-> gpt]
    /\ UNCHANGED <<user_query, snapshot, repo, executed, generations, session>>

\* generate_response(prompt) reads the service and assigns none of its attributes
GenerateResponse ==
    /\ Len(calls) < MaxCalls
    /\ \E outcome \in GenerationOutcomes :
           LET response == generate_response(gpt, outcome)
           IN  /\ calls' = Append(calls, [op |-> "generate_response",
                                          returned |-> IF response.ok THEN response.value
                                                       ELSE response.error])
               /\ generations' = IF response.ok THEN <<outcome>> ELSE <<>>
               /\ result' = [kind |-> "call", op |-> "generate_response", before |-> gpt,
                             raised |-> ~response.ok]
    /\ UNCHANGED <<user_query, snapshot, repo, executed, gpt, session>>

Cleanup ==
    /\ Len(calls) < MaxCalls
    /\ gpt' = cleanup(gpt)
    /\ calls' = Append(calls, [op |-> "cleanup", returned |-> "None"])
    /\ result' = [kind |-> "call", op |-> "cleanup", before |-> gpt]
    /\ UNCHANGED <<user_query, snapshot, repo, executed, generations, session>>

NextService == Initialize \/ GenerateResponse \/ Cleanup

SpecService == InitService /\ [][NextService]_vars

(***************************************************************************)
(* The ask command of the simple command line: one query, or a             *)
(* conversation of at most MaxPrompts prompts.  session.at is "off" before *)
(* the command starts, "prompt" while the conversation waits for input,    *)
(* "ended" when the command returned and "crashed" when an exception left   *)
(* it.                                                                     *)
(***************************************************************************)
MaxPrompts == 2

InitCli ==
    /\ user_query = ""
    /\ repo = CleanSnapshot
    /\ snapshot = repo
    /\ executed = <<>>
    /\ gpt = NewService
    /\ generations = <<>>
    /\ result = NoResult
    /\ calls = <<>>
    /\ session = NoSession

\* process_single_query(typed) with status_outcome for get_git_status()
Answer(typed, status_outcome) ==
    LET response == process_query(typed, status_outcome)
        shown == process_single_query(typed, response)
    IN  [kind |-> "cli", response |-> response, echoed |-> shown.echoed,
         raised |-> shown.raised]

\* gitflow ask "<query>"
AskOnce ==
    /\ session.at = "off"
    /\ \E typed \in CliInputs, status_outcome \in GitStatusOutcomes :
           /\ user_query' = typed
           /\ result' = Answer(typed, status_outcome)
           /\ session' = [session EXCEPT !.at = IF result'.raised = None
                                                THEN "ended" ELSE "crashed"]
    /\ UNCHANGED <<snapshot, repo, executed, gpt, generations, calls>>

\* gitflow ask --interactive, up to the first prompt
AskInteractive ==
    /\ session.at = "off"
    /\ session' = [session EXCEPT !.at = "prompt"]
    /\ UNCHANGED <<user_query, snapshot, repo, executed, gpt, generations, result, calls>>

\* one turn of the loop: the input is an exit word, or it is processed; an
\* exception other than KeyboardInterrupt and EOFError leaves the loop and the command
Converse ==
    /\ session.at = "prompt"
    /\ session.prompts < MaxPrompts
    /\ \E typed \in CliInputs, status_outcome \in GitStatusOutcomes :
           /\ user_query' = typed
           /\ IF lower(typed) \in ExitWords
              THEN /\ session' = [at |-> "ended", prompts |-> session.prompts + 1]
                   /\ UNCHANGED result
              ELSE /\ result' = Answer(typed, status_outcome)
                   /\ session' = [at |-> IF result'.raised = None THEN "prompt" ELSE "crashed",
                                  prompts |-> session.prompts + 1]
    /\ UNCHANGED <<snapshot, repo, executed, gpt, generations, calls>>

\* KeyboardInterrupt or EOFError at the prompt
Interrupt ==
    /\ session.at = "prompt"
    /\ session' = [session EXCEPT !.at = "ended"]
    /\ UNCHANGED <<user_query, snapshot, repo, executed, gpt, generations, result, calls>>

NextCli == AskOnce \/ AskInteractive \/ Converse \/ Interrupt

SpecCli == InitCli /\ [][NextCli]_vars

(***************************************************************************)
(* Properties of process_user_query, over the behaviours of Spec.          *)
(***************************************************************************)
Responded == result.kind = "response"

Commands == result.response.suggested_commands

AlternativeCommands ==
    IF result.response.alternatives = None THEN <<>> ELSE result.response.alternatives[1]

HardReset(cmd) == cmd.args = <<"reset", "--hard", "HEAD~1">>

SoftReset(cmd) == cmd.args = <<"reset", "--soft", "HEAD~1">>

\* the command ends the list and commits with the given message
CommitsWith(commands, message) ==
    /\ Len(commands) > 0
    /\ commands[Len(commands)].args = <<"commit", "-m", Quoted(message)>>

\* C1: every command process_user_query returns, in suggested_commands and in
\* alternatives, whose risk level is DESTRUCTIVE has requires_confirmation true
C1_DestructiveRequiresConfirmation ==
    Responded =>
        /\ \A i \in 1..Len(Commands) :
               Commands[i].risk_level = DESTRUCTIVE => Commands[i].requires_confirmation
        /\ \A i \in 1..Len(AlternativeCommands) :
               AlternativeCommands[i].risk_level = DESTRUCTIVE
                   => AlternativeCommands[i].requires_confirmation

\* a response that suggests a destructive command and offers an alternative
C1_DestructiveSuggested ==
    /\ Responded
    /\ \E i \in 1..Len(Commands) :
           Commands[i].risk_level = DESTRUCTIVE /\ Commands[i].requires_confirmation
    /\ Len(AlternativeCommands) > 0

\* C2: on any snapshot the query "undo my last commit" yields exactly one
\* suggested command, a hard reset of HEAD~1 with risk destructive that requires
\* confirmation, and exactly one alternative, a moderate soft reset
C2_UndoLastCommitIsOneHardReset ==
    (Responded /\ user_query = "undo my last commit") =>
        /\ Len(Commands) = 1
        /\ HardReset(Commands[1])
        /\ Commands[1].risk_level = DESTRUCTIVE
        /\ Commands[1].requires_confirmation
        /\ Len(AlternativeCommands) = 1
        /\ SoftReset(AlternativeCommands[1])
        /\ AlternativeCommands[1].risk_level = MODERATE

\* C3: the query "undo last commit but keep changes" yields exactly one suggested
\* command, with risk moderate, whose args are reset --soft HEAD~1
C3_UndoKeepingChangesIsOneSoftReset ==
    (Responded /\ user_query = "undo last commit but keep changes") =>
        /\ Len(Commands) = 1
        /\ SoftReset(Commands[1])
        /\ Commands[1].risk_level = MODERATE

\* what of a command the language model must not decide
CommandShape(cmd) ==
    [subcommand |-> cmd.args[1],
     risk_level |-> cmd.risk_level,
     requires_confirmation |-> cmd.requires_confirmation]

ShapeOf(response) ==
    [commands |-> [i \in 1..Len(response.suggested_commands) |->
                      CommandShape(response.suggested_commands[i])],
     warnings |-> response.warnings,
     alternatives |-> response.alternatives]

\* C6: for a fixed query and snapshot, two calls of process_user_query that get
\* different texts from the language model return the same number of suggested
\* commands with the same git subcommands, risk levels and confirmation flags in
\* the same order, and the same warnings and alternatives
C6_BackendOutputKeepsShape ==
    [][(result.kind = "response" /\ result'.kind = "response")
           => ShapeOf(result'.response) = ShapeOf(result.response)]_vars

\* a response whose commit message is the text the language model generated
C6_GeneratedMessageSuggested ==
    /\ Responded
    /\ Len(generations) = 2
    /\ generations[2].kind = "text"
    /\ CommitsWith(Commands, "feat: update login flow")

\* the call for a commit message failed or gave nothing
GenerationFailed(outcome) == outcome.kind = "exception" \/ strip(outcome.text) = ""

\* C7: when the commit rule asks the language model for a message and the model
\* is not ready, raises during generation or returns an empty text, the request
\* still completes with a response whose commit command carries "Update files"
C7_EnrichmentFailureFallsBack ==
    (/\ result.kind # "none"
     /\ AsksCommitMessage(user_query, snapshot)
     /\ \/ ~is_model_ready(gpt)
        \/ Len(generations) = 2 /\ GenerationFailed(generations[2]))
        => (Responded /\ CommitsWith(Commands, "Update files"))

\* C8: process_user_query never raises on its own, whether the model is loaded
\* or not: apart from a failure of git itself, every call returns a response
C8_NeverRaises == result.kind = "raised" => result.error = "GitCommandError"

\* C9 as stated: two runs on the same query and snapshot yield identical intents
\* and identical command lists
C9_RunsAgree ==
    [][(result.kind = "response" /\ result'.kind = "response")
           => /\ result'.intent = result.intent
              /\ result'.response.suggested_commands = result.response.suggested_commands]_vars

\* a commit command whose message the language model wrote
GeneratedCommit(cmd) ==
    /\ Len(cmd.args) = 3
    /\ cmd.args[1] = "commit"
    /\ cmd.args[2] = "-m"
    /\ cmd.description = "Commit with AI-generated message: "
                             \o SubSeq(cmd.args[3], 2, Len(cmd.args[3]) - 1)

\* the two lists agree command by command, the message of a generated commit aside
AgreeButMessage(first, second) ==
    /\ Len(first) = Len(second)
    /\ \A i \in 1..Len(first) :
           \/ first[i] = second[i]
           \/ /\ AsksCommitMessage(user_query, snapshot)
              /\ i = Len(first)
              /\ GeneratedCommit(first[i])
              /\ GeneratedCommit(second[i])
              /\ [first[i] EXCEPT !.args = <<>>, !.description = ""]
                     = [second[i] EXCEPT !.args = <<>>, !.description = ""]

\* C9: two runs on the same query and snapshot yield identical intents and
\* command lists that are identical in length, order, args, descriptions, risk
\* levels and confirmation flags, except for the message text of the commit
\* command the language model phrases when the query gives no message
C9_RunsAgreeButMessage ==
    [][(result.kind = "response" /\ result'.kind = "response")
           => /\ result'.intent = result.intent
              /\ AgreeButMessage(result.response.suggested_commands,
                                 result'.response.suggested_commands)]_vars

\* a response to a commit request without a message, the model having given no text
C9_DefaultReplyCommitted ==
    /\ Responded
    /\ AsksCommitMessage(user_query, snapshot)
    /\ Len(generations) = 2
    /\ CommitsWith(Commands, EmptyGenerationReply)

\* C10: a call of process_user_query changes neither the snapshot (branch, staged,
\* unstaged, untracked, conflicted lists, ahead/behind counts) nor the
\* repository, and runs none of the commands it suggests
C10_ProcessingChangesNothing ==
    [][snapshot' = snapshot /\ repo' = repo /\ executed' = executed]_vars

\* a response that suggests commands for a mutating request, none of them run
C10_SuggestedNotRun ==
    /\ Responded
    /\ result.intent.action \in {"commit", "undo", "stash", "merge", "push"}
    /\ Len(Commands) > 0
    /\ executed = <<>>
    /\ repo = snapshot

(***************************************************************************)
(* Properties of the synthesis rules and of the auditor, over the          *)
(* behaviours of Spec.                                                     *)
(***************************************************************************)
Warnings == IF result.response.warnings = None THEN <<>> ELSE result.response.warnings[1]

\* the positions of the commands of a git subcommand
CommandsOf(subcommand) == { i \in 1..Len(Commands) : Commands[i].args[1] = subcommand }

Mentions(word) == Contains(lower(user_query), word)

\* C11: for a commit query without a message on a snapshot with no staged file
\* and at least one unstaged file, the suggested commands begin with git add .
\* immediately followed by a commit command, both safe
C11_StageThenCommit ==
    (/\ Responded
     /\ result.intent.action = "commit"
     /\ result.intent.target = "changes"
     /\ snapshot.staged_files = <<>>
     /\ NonEmpty(snapshot.unstaged_files))
        => /\ Len(Commands) >= 2
           /\ Commands[1].args = <<"add", ".">>
           /\ Commands[1].risk_level = SAFE
           /\ Commands[2].args[1] = "commit"
           /\ Commands[2].risk_level = SAFE

\* a response to such a commit request: stage all, then commit
C11_StagedAndCommitted ==
    /\ Responded
    /\ result.intent.action = "commit"
    /\ result.intent.target = "changes"
    /\ snapshot.staged_files = <<>>
    /\ NonEmpty(snapshot.unstaged_files)
    /\ Len(Commands) = 2
    /\ Commands[1].args = <<"add", ".">>

\* C12: a push intent yields exactly one command: a plain push, safe and without
\* confirmation, when ahead/behind is present with ahead > 0; otherwise a push
\* -u origin <current branch>, moderate and requiring confirmation
C12_PushIsOneCommand ==
    (Responded /\ result.intent.action = "push") =>
        /\ Len(Commands) = 1
        /\ IF snapshot.ahead_behind # None /\ snapshot.ahead_behind[1].ahead > 0
           THEN /\ Commands[1].args = <<"push">>
                /\ Commands[1].risk_level = SAFE
                /\ ~Commands[1].requires_confirmation
           ELSE /\ Commands[1].args = <<"push", "-u", "origin", snapshot.current_branch>>
                /\ Commands[1].risk_level = MODERATE
                /\ Commands[1].requires_confirmation

\* a push request on a branch that tracks its upstream and is not ahead of it
C12_PushedWhenNotAhead ==
    /\ Responded
    /\ result.intent.action = "push"
    /\ snapshot.ahead_behind # None
    /\ snapshot.ahead_behind[1].ahead = 0
    /\ Commands[1].requires_confirmation

\* the query asks to switch and not to create
AsksSwitch ==
    /\ ~Mentions("create") /\ ~Mentions("new")
    /\ (Mentions("switch") \/ Mentions("checkout"))

\* C13: the switch command of a branch intent requires confirmation exactly when
\* the snapshot's tree is not clean
C13_SwitchConfirmsWhenDirty ==
    (Responded /\ result.intent.action = "branch" /\ AsksSwitch) =>
        /\ Len(Commands) = 1
        /\ Commands[1].args[1] = "checkout"
        /\ Commands[1].requires_confirmation <=> ~snapshot.is_clean

\* a switch on a tree with changes, requiring confirmation
C13_DirtySwitchConfirmed ==
    /\ Responded
    /\ result.intent.action = "branch"
    /\ AsksSwitch
    /\ ~snapshot.is_clean
    /\ Commands[1].requires_confirmation

\* C14: when the snapshot's conflicted files are non-empty the warnings are
\* non-empty and contain the unresolved-merge-conflicts message, whatever the
\* action and the commands; when they are absent or empty the message is not
\* there and a response is still returned
C14_ConflictsAreWarned ==
    Responded =>
        IF snapshot.conflicted_files # None /\ snapshot.conflicted_files[1] # <<>>
        THEN Warnings # <<>> /\ InList(ConflictWarning, Warnings)
        ELSE ~InList(ConflictWarning, Warnings)

\* a status request on a snapshot with a conflicted file, warned
C14_ConflictWarned ==
    /\ Responded
    /\ result.intent.action = "status"
    /\ snapshot.conflicted_files = Some(<<"x.txt">>)
    /\ InList(ConflictWarning, Warnings)

\* C15: when no warning rule triggers (no destructive command, no push on a dirty
\* tree, no conflicted files) the warnings field is an empty list, not None
C15_NoWarningIsEmptyList ==
    (/\ Responded
     /\ \A i \in 1..Len(Commands) :
            Commands[i].risk_level # DESTRUCTIVE /\ ~InList("push", Commands[i].args)
     /\ ~Truthy(snapshot.conflicted_files))
        => result.response.warnings = Some(<<>>)

RiskRank(risk_level) ==
    CASE risk_level = SAFE -> 1
      [] risk_level = MODERATE -> 2
      [] risk_level = DESTRUCTIVE -> 3

\* the positions of the destructive hard resets among the suggested commands
DestructiveHardResets ==
    { i \in 1..Len(Commands) :
        /\ Commands[i].risk_level = DESTRUCTIVE
        /\ Commands[i].args[1] = "reset"
        /\ InList("--hard", Commands[i].args) }

\* C16: the alternatives are present exactly when a destructive hard reset is
\* suggested; they hold one reset --soft HEAD~1 (moderate, requiring
\* confirmation) per such command, of strictly lower risk, and are None otherwise
C16_AlternativesForHardResets ==
    Responded =>
        IF DestructiveHardResets = {}
        THEN result.response.alternatives = None
        ELSE /\ result.response.alternatives # None
             /\ Len(AlternativeCommands) = Cardinality(DestructiveHardResets)
             /\ \A i \in 1..Len(AlternativeCommands) :
                    /\ SoftReset(AlternativeCommands[i])
                    /\ AlternativeCommands[i].risk_level = MODERATE
                    /\ AlternativeCommands[i].requires_confirmation
                    /\ RiskRank(AlternativeCommands[i].risk_level) < RiskRank(DESTRUCTIVE)

\* one hard reset suggested, one soft reset offered instead
C16_SoftResetOffered ==
    /\ Responded
    /\ Cardinality(DestructiveHardResets) = 1
    /\ Len(AlternativeCommands) = 1
    /\ SoftReset(AlternativeCommands[1])

\* C17: the uncommitted-changes warning is emitted if and only if the snapshot is
\* not clean and a git push command is suggested; no other category, stash in
\* particular, produces it
C17_UncommittedWarningOnlyForPush ==
    Responded =>
        (InList(UncommittedWarning, Warnings)
            <=> (~snapshot.is_clean /\ CommandsOf("push") # {}))

\* C18: an undo intent yields exactly one command: reset --soft HEAD~1 (moderate,
\* confirmation) when the query contains "commit" and "keep" or "save"; reset
\* --hard HEAD~1 (destructive, confirmation) when it contains "commit" but
\* neither; log --oneline -5 (safe) when it does not contain "commit"
C18_UndoIsOneCommand ==
    (Responded /\ result.intent.action = "undo") =>
        /\ Len(Commands) = 1
        /\ IF Mentions("commit")
           THEN /\ Commands[1].requires_confirmation
                /\ IF Mentions("keep") \/ Mentions("save")
                   THEN SoftReset(Commands[1]) /\ Commands[1].risk_level = MODERATE
                   ELSE HardReset(Commands[1]) /\ Commands[1].risk_level = DESTRUCTIVE
           ELSE /\ Commands[1].args = <<"log", "--oneline", "-5">>
                /\ Commands[1].risk_level = SAFE

\* an undo request that keeps the changes: the soft reset
C18_UndoKeepsChanges ==
    /\ Responded
    /\ result.intent.action = "undo"
    /\ Mentions("commit")
    /\ Mentions("keep")
    /\ SoftReset(Commands[1])

\* C19: for a commit intent, a target other than "changes" yields a safe commit
\* command with that target as its message whatever the snapshot; the target
\* "changes" yields a commit command exactly when staged or unstaged files exist
C19_CommitRule ==
    (Responded /\ result.intent.action = "commit") =>
        IF result.intent.target # "changes"
        THEN /\ CommitsWith(Commands, result.intent.target)
             /\ Commands[Len(Commands)].risk_level = SAFE
             /\ CommandsOf("commit") = { Len(Commands) }
        ELSE CommandsOf("commit") # {}
                 <=> (NonEmpty(snapshot.staged_files) \/ NonEmpty(snapshot.unstaged_files))

\* a commit request without a message on a tree with untracked files only:
\* staged, not committed
C19_NothingToCommit ==
    /\ Responded
    /\ result.intent.action = "commit"
    /\ result.intent.target = "changes"
    /\ NonEmpty(snapshot.untracked_files)
    /\ CommandsOf("add") # {}
    /\ CommandsOf("commit") = {}

\* C20 as stated: a branch intent yields exactly one command: for a query with
\* "create" or "new" a safe checkout -b of the extracted target; otherwise for
\* "switch" or "checkout" a moderate checkout of the target; otherwise the safe
\* listing of all branches
C20_BranchUsesTarget ==
    (Responded /\ result.intent.action = "branch") =>
        /\ Len(Commands) = 1
        /\ IF Mentions("create") \/ Mentions("new")
           THEN /\ Commands[1].args = <<"checkout", "-b", result.intent.target>>
                /\ Commands[1].risk_level = SAFE
           ELSE IF Mentions("switch") \/ Mentions("checkout")
                THEN /\ Commands[1].args = <<"checkout", result.intent.target>>
                     /\ Commands[1].risk_level = MODERATE
                ELSE /\ Commands[1].args = <<"branch", "-a">>
                     /\ Commands[1].risk_level = SAFE

\* C20: the same, the branch created being the extracted target unless no name
\* was extracted (target "new branch"), when it is feature/new-feature
C20_BranchUsesTargetOrDefault ==
    (Responded /\ result.intent.action = "branch") =>
        /\ Len(Commands) = 1
        /\ IF Mentions("create") \/ Mentions("new")
           THEN /\ Commands[1].args =
                       <<"checkout", "-b",
                         IF result.intent.target = "new branch"
                         THEN "feature/new-feature" ELSE result.intent.target>>
                /\ Commands[1].risk_level = SAFE
                /\ ~Commands[1].requires_confirmation
           ELSE IF Mentions("switch") \/ Mentions("checkout")
                THEN /\ Commands[1].args = <<"checkout", result.intent.target>>
                     /\ Commands[1].risk_level = MODERATE
                ELSE /\ Commands[1].args = <<"branch", "-a">>
                     /\ Commands[1].risk_level = SAFE
                     /\ ~Commands[1].requires_confirmation

\* a query with "switch" and "new" and no branch name: the default branch is created
C20_DefaultBranchCreated ==
    /\ Responded
    /\ result.intent.action = "branch"
    /\ Mentions("switch")
    /\ Mentions("new")
    /\ result.intent.target = "new branch"
    /\ Commands[1].args = <<"checkout", "-b", "feature/new-feature">>

\* C21: for a pull intent the last command is a moderate pull; on a snapshot
\* that is not clean it is preceded by exactly one stash, safe and requiring
\* confirmation; on a clean snapshot the pull is the only command
C21_PullAfterOptionalStash ==
    (Responded /\ result.intent.action = "pull") =>
        /\ Commands[Len(Commands)].args = <<"pull">>
        /\ Commands[Len(Commands)].risk_level = MODERATE
        /\ IF ~snapshot.is_clean
           THEN /\ Len(Commands) = 2
                /\ Commands[1].args = <<"stash">>
                /\ Commands[1].risk_level = SAFE
                /\ Commands[1].requires_confirmation
           ELSE Len(Commands) = 1

\* a pull on a dirty working tree: stash, then pull
C21_DirtyPullStashes ==
    /\ Responded
    /\ result.intent.action = "pull"
    /\ ~snapshot.is_clean
    /\ CommandsOf("stash") = { 1 }
    /\ CommandsOf("pull") = { 2 }

\* C22: for a merge intent the last command is a moderate merge of the
\* extracted target that requires confirmation; on a snapshot that is not clean
\* it is preceded by exactly one safe status check; on a clean snapshot the
\* merge is the only command
C22_MergeAfterOptionalStatus ==
    (Responded /\ result.intent.action = "merge") =>
        /\ Commands[Len(Commands)].args = <<"merge", result.intent.target>>
        /\ Commands[Len(Commands)].risk_level = MODERATE
        /\ Commands[Len(Commands)].requires_confirmation
        /\ IF ~snapshot.is_clean
           THEN /\ Len(Commands) = 2
                /\ Commands[1].args = <<"status">>
                /\ Commands[1].risk_level = SAFE
           ELSE Len(Commands) = 1

\* a merge of feature/login on a dirty working tree: status, then the merge
C22_DirtyMergeChecksStatus ==
    /\ Responded
    /\ result.intent.action = "merge"
    /\ ~snapshot.is_clean
    /\ CommandsOf("status") = { 1 }
    /\ Commands[2].args = <<"merge", "feature/login">>

\* C25: in the output of the commit rule "git add ." is never the final
\* command: whenever it is emitted a commit command follows it
C25_AddIsFollowedByCommit ==
    (Responded /\ result.intent.action = "commit") =>
        \A i \in CommandsOf("add") : \E j \in CommandsOf("commit") : j > i

\* C26: the list of suggested commands is empty exactly when the action is
\* commit, the target is the placeholder "changes" and the snapshot has no
\* staged, unstaged or untracked files
C26_EmptyOnlyForCleanDefaultCommit ==
    Responded =>
        (Len(Commands) = 0
            <=> /\ result.intent.action = "commit"
                /\ result.intent.target = "changes"
                /\ ~NonEmpty(snapshot.staged_files)
                /\ ~NonEmpty(snapshot.unstaged_files)
                /\ ~NonEmpty(snapshot.untracked_files))

\* a commit request without a message on a clean snapshot: nothing is suggested
C26_CleanCommitSuggestsNothing ==
    /\ Responded
    /\ result.intent.action = "commit"
    /\ result.intent.target = "changes"
    /\ snapshot.is_clean
    /\ Len(Commands) = 0

(***************************************************************************)
(* Properties of the explanation, over the behaviours of SpecExplain.      *)
(***************************************************************************)
\* what process_user_query handed to _generate_explanation as ai_response
Enrichment == generate_git_response(gpt, generations[1]).value

\* C23: the explanation is the static sentence of the action followed by the
\* enrichment exactly when the enrichment is longer than 10 characters, and the
\* static sentence alone for an enrichment of 0 to 10 characters; the confidence
\* of the response is the confidence of the intent
C23_EnrichmentAppendedIffLong ==
    /\ result.kind = "explanation" =>
           result.explanation =
               IF Len(result.ai_response) > 10
               THEN explanations(result.intent.action, snapshot) \o " " \o result.ai_response
               ELSE explanations(result.intent.action, snapshot)
    /\ Responded =>
           /\ result.response.explanation =
                  IF Len(Enrichment) > 10
                  THEN explanations(result.intent.action, snapshot) \o " " \o Enrichment
                  ELSE explanations(result.intent.action, snapshot)
           /\ result.response.confidence = result.intent.confidence
           /\ result.intent = IntentOf[user_query]

\* the model answered ten characters: the response explains with the static
\* sentence alone
C23_TenCharactersDropped ==
    /\ Responded
    /\ Len(Enrichment) = 10
    /\ result.response.explanation = explanations(result.intent.action, snapshot)
    /\ result.response.confidence = 8

(***************************************************************************)
(* Properties of generate_commit_message, over the behaviours of           *)
(* SpecCommitMessage.                                                      *)
(***************************************************************************)
CommitMessageReturned == result.kind = "commit_message" /\ result.message.ok

\* the first line of what generate_response returned for the generation
ReplyFirstLine ==
    LET reply == generate_response(gpt, generations[1]).value
        first_end == IF \E p \in 1..Len(reply) : Char(reply, p) = "\n"
                     THEN (CHOOSE p \in 1..Len(reply) :
                              /\ Char(reply, p) = "\n"
                              /\ \A r \in 1..(p - 1) : Char(reply, r) # "\n") - 1
                     ELSE Len(reply)
    IN  strip(SubSeq(reply, 1, first_end))

\* C24: generate_commit_message returns at most 72 characters: a first line of
\* at most 72 characters unchanged, a longer one as its first 69 characters
\* followed by "..." (72 characters in all), and never the empty string
C24_CommitMessageAtMost72 ==
    CommitMessageReturned =>
        /\ Len(result.message.value) <= 72
        /\ result.message.value # ""
        /\ IF Len(ReplyFirstLine) <= 72
           THEN result.message.value = ReplyFirstLine
           ELSE /\ result.message.value = SubSeq(ReplyFirstLine, 1, 69) \o "..."
                /\ Len(result.message.value) = 72

\* a first line of 73 characters comes back as 72, the last three an ellipsis
C24_LongFirstLineCut ==
    /\ CommitMessageReturned
    /\ Len(ReplyFirstLine) = 73
    /\ Len(result.message.value) = 72
    /\ SubSeq(result.message.value, 70, 72) = "..."

(***************************************************************************)
(* Properties of the service's life, over the behaviours of SpecService.   *)
(***************************************************************************)
\* the calls that load or release the model
LoadsOrReleases(call) == call.op \in { "initialize", "cleanup" }

\* the last initialize or cleanup call was an initialize that returned True
LastInitializeSucceeded ==
    \E i \in 1..Len(calls) :
        /\ calls[i].op = "initialize"
        /\ calls[i].returned = TRUE
        /\ \A j \in (i + 1)..Len(calls) : ~LoadsOrReleases(calls[j])

\* C27: after any sequence of initialize and cleanup calls is_model_ready() is
\* true exactly when the most recent initialize returned True and cleanup has
\* not been called since
C27_ReadyIffLastInitializeSucceeded == is_model_ready(gpt) <=> LastInitializeSucceeded

\* C28: is_loaded implies that model and tokenizer are set; generate_response
\* raises RuntimeError exactly when the service is not ready and leaves
\* is_loaded, model and tokenizer as they were; cleanup leaves the service not
\* ready, and a second cleanup changes nothing
C28_ServiceLifecycle ==
    /\ gpt.is_loaded => (gpt.model # None /\ gpt.tokenizer # None)
    /\ (result.kind = "call" /\ result.op = "generate_response") =>
           /\ result.raised <=> ~is_model_ready(result.before)
           /\ result.raised => calls[Len(calls)].returned = "RuntimeError"
           /\ gpt = result.before
    /\ (result.kind = "call" /\ result.op = "cleanup") =>
           /\ ~is_model_ready(gpt)
           /\ ~gpt.is_loaded
           /\ cleanup(gpt) = gpt

\* a loaded service was cleaned up and then asked to generate: it refused
C28_RefusedAfterCleanup ==
    /\ Len(calls) = 3
    /\ calls[1] = [op |-> "initialize", returned |-> TRUE]
    /\ calls[2].op = "cleanup"
    /\ calls[3] = [op |-> "generate_response", returned |-> "RuntimeError"]
    /\ result.raised
    /\ gpt = NewService

(***************************************************************************)
(* Properties of the simple command line, over the behaviours of SpecCli.  *)
(***************************************************************************)
Answered == result.kind = "cli"

\* C29: every query is handled without an exception: the dict process_query
\* returns has the keys interpretation, commands and warnings, so an unmatched
\* query prints the fallback interpretation and the conversation goes on
C29_EveryQueryHandled ==
    /\ session.at # "crashed"
    /\ Answered =>
           /\ result.raised = None
           /\ { "interpretation", "commands", "warnings" } \subseteq DOMAIN result.response
           /\ InList(result.response.interpretation, result.echoed)

\* C30: every returned command of risk destructive comes with the warning that
\* names it, whatever get_git_status returned
C30_DestructiveCommandsAreWarned ==
    Answered =>
        \A k \in 1..Len(result.response.commands) :
            result.response.commands[k].risk = "destructive" =>
                /\ "warnings" \in DOMAIN result.response
                /\ InList(DestructiveOperationWarning(result.response.commands[k].command),
                          result.response.warnings)

(***************************************************************************)
(* Properties of _analyze_intent, over the behaviours of SpecClassify.     *)
(***************************************************************************)
DeclaredOrder == <<"commit", "push", "pull", "branch", "merge", "status", "undo", "stash">>

\* the categories with a pattern that matches the query
MatchingCategories(q) ==
    { i \in 1..Len(command_patterns) : CategoryMatches(i, lower(q)) }

\* C4: the categories are tried in the order commit, push, pull, branch, merge,
\* status, undo, stash and the action returned is the earliest category with a
\* matching pattern, however many later categories match too
C4_FirstMatchWins ==
    /\ CategoryOrder = DeclaredOrder
    /\ result.kind = "intent" =>
           LET matching == MatchingCategories(user_query)
           IN  \A i \in matching :
                   (\A j \in matching : i <= j) => result.intent.action = DeclaredOrder[i]

\* a query matching a commit pattern and an undo or stash pattern, classified commit
C4_CommitBeforeUndoOrStash ==
    /\ result.kind = "intent"
    /\ result.intent.action = "commit"
    /\ 1 \in MatchingCategories(user_query)
    /\ (7 \in MatchingCategories(user_query) \/ 8 \in MatchingCategories(user_query))

\* C5: a query matching no pattern is classified help, "general", confidence 0.5;
\* help is returned only when no pattern matched; every matched action carries
\* confidence 0.8, which is higher (confidences are counted in tenths)
C5_HelpIffNoMatch ==
    /\ FallbackConfidence = 5
    /\ MatchedConfidence = 8
    /\ MatchedConfidence > FallbackConfidence
    /\ result.kind = "intent" =>
           LET matching == MatchingCategories(user_query)
           IN  /\ matching = {} =>
                      /\ result.intent.action = "help"
                      /\ result.intent.target = "general"
                      /\ result.intent.confidence = FallbackConfidence
               /\ result.intent.action = "help" => matching = {}
               /\ matching # {} => result.intent.confidence = MatchedConfidence

\* the whitespace-only query, classified help
C5_BlankQueryIsHelp ==
    /\ result.kind = "intent"
    /\ user_query = "   "
    /\ result.intent.action = "help"
    /\ result.intent.confidence = FallbackConfidence

====
